---- MODULE Spec2Model ----
(***************************************************************************)
(* A model of tagzen: the TV season/episode capture engine (src/tv.rs,     *)
(* src/main.rs) and the music name normalizer and render composer          *)
(* (src/utils.rs, src/music.rs).                                           *)
(*                                                                         *)
(* A string is a sequence of characters; a character is a one-letter TLA+  *)
(* string (TAB and EMDASH are named).  Option<T> is a sequence of length   *)
(* at most one; Result<T, E> is a record [kind, val].                      *)
(***************************************************************************)
EXTENDS Integers, Sequences, FiniteSets, TLC

VARIABLES
    pc,         \* position of the request / call in progress
    file_path,  \* `name` query argument of /tv/episode and /music/song
    context,    \* Context built from the `episode` and `season` query arguments
    artist,     \* `artist` query argument of /music/song
    album,      \* `album` query argument of /music/song
    names,      \* Episodes.names of the /tv/season body
    caps,       \* `caps` vector of the season handler
    processed,  \* indices of `names` that Capture::new has been called on
    response,   \* the ResponseModel the handler returned
    arg,        \* argument of a direct call of a helper function
    out,        \* what the direct call returned
    calls       \* number of direct calls made so far

vars == <<pc, file_path, context, artist, album, names, caps, processed,
          response, arg, out, calls>>

----------------------------------------------------------------------------
(* Bounds of the model *)

MaxTokens == 3
MaxPathLen == 3
MaxAlbumLen == 2
MaxNameLen == 3
MaxNames == 3
MaxCalls == 2

----------------------------------------------------------------------------
(* Option, Result, strings *)

None == <<>>
Some(v) == <<v>>

Ok(v) == [kind |-> "Ok", val |-> v]
Err(e) == [kind |-> "Err", val |-> e]
Panic == [kind |-> "Panic", val |-> "unwrap"]

NoSeasonRegex == "NoSeasonRegex"
NoEpisodeRegex == "NoEpisodeRegex"

TAB == "TAB"
EMDASH == "EMDASH"

Min(S) == CHOOSE x \in S : \A y \in S : x <= y
Max(S) == CHOOSE x \in S : \A y \in S : x >= y

RECURSIVE Concat(_)
Concat(ss) == IF ss = <<>> THEN <<>> ELSE Head(ss) \o Concat(Tail(ss))

\* All sequences over S of length at most n.
SeqsUpTo(S, n) == UNION {[1..k -> S] : k \in 0..n}

----------------------------------------------------------------------------
(* str::split('.') and [&str]::join(".") *)

RECURSIVE Split(_, _)
Split(s, sep) ==
    LET at == {i \in 1..Len(s) : s[i] = sep}
    IN  IF at = {} THEN <<s>>
        ELSE <<SubSeq(s, 1, Min(at) - 1)>>
                 \o Split(SubSeq(s, Min(at) + 1, Len(s)), sep)

RECURSIVE Join(_, _)
Join(segs, sep) ==
    IF segs = <<>> THEN <<>>
    ELSE IF Len(segs) = 1 THEN segs[1]
    ELSE segs[1] \o <<sep>> \o Join(Tail(segs), sep)

----------------------------------------------------------------------------
(* The regex crate, as far as the three patterns of tv.rs use it *)

Digits == {"0", "1", "2", "3", "4", "5", "6", "7", "8", "9"}

DigitVal ==
    [c \in Digits |->
        CASE c = "0" -> 0 [] c = "1" -> 1 [] c = "2" -> 2 [] c = "3" -> 3
          [] c = "4" -> 4 [] c = "5" -> 5 [] c = "6" -> 6 [] c = "7" -> 7
          [] c = "8" -> 8 [] c = "9" -> 9]

\* Simple case folding of the letters the two marker patterns name.
Fold(c) ==
    CASE c = "S" -> "s" [] c = "E" -> "e" [] c = "A" -> "a" [] c = "O" -> "o"
      [] c = "N" -> "n" [] c = "P" -> "p" [] c = "I" -> "i" [] c = "D" -> "d"
      [] OTHER -> c

\* The first index at or after i whose character is not in S (Len(s)+1 if none):
\* where a greedy "x*" that starts at i stops.
RunEnd(s, i, S) ==
    Min({j \in i..(Len(s) + 1) : j = Len(s) + 1 \/ s[j] \notin S})

\* (?i) literal at index i.
MatchesLit(s, i, lit) ==
    /\ i + Len(lit) - 1 <= Len(s)
    /\ \A k \in 1..Len(lit) : Fold(s[i + k - 1]) = lit[k]

\* One alternative of a marker pattern at index i: the literal, " *", "[0-9]+".
\* The index after the match, or 0 when it does not match.
TryPrefix(s, i, lit) ==
    IF MatchesLit(s, i, lit)
    THEN LET j == RunEnd(s, i + Len(lit), {" "})
             k == RunEnd(s, j, Digits)
         IN  IF k > j THEN k ELSE 0
    ELSE 0

\* A marker pattern at index i; the alternatives are tried in the pattern's
\* order of preference (the optional groups are greedy).
RECURSIVE MatchEndAt(_, _, _)
MatchEndAt(s, i, alts) ==
    IF alts = <<>> THEN 0
    ELSE IF TryPrefix(s, i, Head(alts)) # 0 THEN TryPrefix(s, i, Head(alts))
    ELSE MatchEndAt(s, i, Tail(alts))

\* r"(?i)(e(p(isode)?)? *[0-9]+){1}"
EPISODE_REGEX ==
    << <<"e", "p", "i", "s", "o", "d", "e">>, <<"e", "p">>, <<"e">> >>

\* r"(?i)(s(eason)? *[0-9]+){1}"
SEASON_REGEX ==
    << <<"s", "e", "a", "s", "o", "n">>, <<"s">> >>

\* Regex::find taking the rightmost match instead of the leftmost.
FindLast(s, alts) ==
    LET starts == {i \in 1..Len(s) : MatchEndAt(s, i, alts) # 0}
    IN  IF starts = {} THEN None
        ELSE Some(SubSeq(s, Max(starts), MatchEndAt(s, Max(starts), alts) - 1))

\* Regex::find with a marker pattern: the leftmost match, as the matched text.
Find(s, alts) ==
    LET starts == {i \in 1..Len(s) : MatchEndAt(s, i, alts) # 0}
    IN  IF starts = {} THEN None
        ELSE Some(SubSeq(s, Min(starts), MatchEndAt(s, Min(starts), alts) - 1))

\* Regex::find with NUMBER_REGEX, r"[0-9]+": the leftmost digit run.
FindNumber(s) ==
    LET starts == {i \in 1..Len(s) : s[i] \in Digits}
    IN  IF starts = {} THEN None
        ELSE Some(SubSeq(s, Min(starts), RunEnd(s, Min(starts), Digits) - 1))

----------------------------------------------------------------------------
(* str::parse::<usize>() of a run of ASCII digits, on a 64-bit target *)

\* usize::MAX = 18446744073709551615
USIZE_MAX ==
    <<"1", "8", "4", "4", "6", "7", "4", "4", "0", "7",
      "3", "7", "0", "9", "5", "5", "1", "6", "1", "5">>

StripZeros(ds) == SubSeq(ds, RunEnd(ds, 1, {"0"}), Len(ds))

\* a > b for digit strings of the same length
DigitsGreater(a, b) ==
    \E i \in 1..Len(a) :
        /\ DigitVal[a[i]] > DigitVal[b[i]]
        /\ \A k \in 1..(i - 1) : a[k] = b[k]

Overflows(ds) ==
    LET t == StripZeros(ds)
    IN  \/ Len(t) > Len(USIZE_MAX)
        \/ Len(t) = Len(USIZE_MAX) /\ DigitsGreater(t, USIZE_MAX)

RECURSIVE DigitsValue(_)
DigitsValue(ds) ==
    IF ds = <<>> THEN 0
    ELSE 10 * DigitsValue(SubSeq(ds, 1, Len(ds) - 1)) + DigitVal[ds[Len(ds)]]

ParseUsize(ds) ==
    IF ds = <<>> \/ Overflows(ds) THEN Err("ParseIntError")
    ELSE Ok(DigitsValue(ds))

----------------------------------------------------------------------------
(* src/tv.rs *)

\* cap_filename_ext of tv.rs without the '.' put back before the extension.
tv_cap_filename_ext_nodot(path) ==
    LET split == Split(path, ".")
    IN  <<split[1],
          IF Len(split) > 1
          THEN Some(Join(SubSeq(split, 2, Len(split)), "."))
          ELSE None>>

\* cap_filename_ext of tv.rs (and of main.rs): the name is cut at its first
\* dot.
tv_cap_filename_ext(path) ==
    LET split == Split(path, ".")
    IN  <<split[1],
          IF Len(split) > 1
          THEN Some(<<".">> \o Join(SubSeq(split, 2, Len(split)), "."))
          ELSE None>>

\* cap_num: Ok(n), or Panic when one of its two unwraps fails.
cap_num(captured) ==
    LET m == FindNumber(captured)
    IN  IF m = None THEN Panic
        ELSE IF ParseUsize(m[1]).kind = "Err" THEN Panic
        ELSE Ok(ParseUsize(m[1]).val)

cap_episode(filename) ==
    LET m == Find(filename, EPISODE_REGEX)
    IN  IF m = None THEN Err(NoEpisodeRegex) ELSE cap_num(m[1])

cap_season(filename) ==
    LET m == Find(filename, SEASON_REGEX)
    IN  IF m = None THEN Err(NoSeasonRegex) ELSE cap_num(m[1])

\* A Context; each field is an Option<usize>.
Context(episode, season) == [episode |-> episode, season |-> season]

NoOverride == Context(None, None)

\* The `episode:` field initializer of Capture::new.
ResolveEpisode(ctx, filename) ==
    IF ctx.episode # None THEN Ok(ctx.episode[1]) ELSE cap_episode(filename)

\* The `season:` field initializer with the regex taking precedence.
ResolveSeason_RegexFirst(ctx, filename) ==
    IF cap_season(filename).kind = "Ok" \/ ctx.season = None
    THEN cap_season(filename)
    ELSE Ok(ctx.season[1])

\* The `season:` field initializer of Capture::new.
ResolveSeason(ctx, filename) ==
    IF ctx.season # None THEN Ok(ctx.season[1]) ELSE cap_season(filename)

\* Capture::new with the season initializer evaluated first.
CaptureNew_SeasonFirst(path, ctx) ==
    LET fe == tv_cap_filename_ext(path)
        se == ResolveSeason(ctx, fe[1])
        ep == ResolveEpisode(ctx, fe[1])
    IN  IF se.kind # "Ok" THEN se
        ELSE IF ep.kind # "Ok" THEN ep
        ELSE Ok([file_path |-> path, filename |-> fe[1], ext |-> fe[2],
                 episode |-> ep.val, season |-> se.val])

\* Capture::new.  The field initializers of the struct expression run in the
\* order they are written, episode before season, and `?` returns the first
\* error met.
CaptureNew(path, ctx) ==
    LET fe == tv_cap_filename_ext(path)
        ep == ResolveEpisode(ctx, fe[1])
        se == ResolveSeason(ctx, fe[1])
    IN  IF ep.kind # "Ok" THEN ep
        ELSE IF se.kind # "Ok" THEN se
        ELSE Ok([file_path |-> path, filename |-> fe[1], ext |-> fe[2],
                 episode |-> ep.val, season |-> se.val])

\* impl fmt::Display for CaptureError
Display(err) ==
    IF err = NoSeasonRegex
    THEN "No season number passed as context and it wasn't found in the file name either"
    ELSE "No episode number passed as context and it wasn't found in the file name either"

\* ResponseModel::new and ResponseModel::basic
ResponseNew(status, msg, body) ==
    [status |-> status, msg |-> msg, body |-> Some(body)]
ResponseBasic(status, msg) ==
    [status |-> status, msg |-> msg, body |-> None]

\* What is left of a request whose handler panicked: no ResponseModel.
Aborted == [status |-> 500, msg |-> "panic", body |-> None]

NoResponse == [status |-> 0, msg |-> "", body |-> None]
NoCall == [fn |-> "", in |-> <<>>, val |-> <<>>]

----------------------------------------------------------------------------
(* src/utils.rs *)

\* cap_filename_ext of utils.rs: the name is cut at its last dot; the stem
\* is the join of an empty slice when there is no dot.
utils_cap_filename_ext(path) ==
    LET split == Split(path, ".")
    IN  <<Join(SubSeq(split, 1, Len(split) - 1), "."),
          IF Len(split) > 1
          THEN Some(<<".">> \o split[Len(split)])
          ELSE None>>

\* The characters TO_SPACE_REGEX, r"(\.|-| )+", matches runs of.
TO_SPACE_REGEX == {".", "-", " "}

\* Regex::replace_all(name, " ") with TO_SPACE_REGEX: every match, a maximal
\* run, becomes one space.
RECURSIVE ReplaceAll(_)
ReplaceAll(s) ==
    IF s = <<>> THEN <<>>
    ELSE IF s[1] \in TO_SPACE_REGEX
    THEN <<" ">> \o ReplaceAll(SubSeq(s, RunEnd(s, 1, TO_SPACE_REGEX), Len(s)))
    ELSE <<s[1]>> \o ReplaceAll(Tail(s))

\* The White_Space characters the inputs hold.
WhiteSpace == {" ", TAB}

\* str::trim
Trim(s) ==
    LET keep == {i \in 1..Len(s) : s[i] \notin WhiteSpace}
    IN  IF keep = {} THEN <<>> ELSE SubSeq(s, Min(keep), Max(keep))

\* format_name trimming before it replaces.
format_name_TrimFirst(name) == ReplaceAll(Trim(name))

format_name(name) == Trim(ReplaceAll(name))

----------------------------------------------------------------------------
(* src/music.rs *)

UnknownArtist ==
    <<"U", "n", "k", "n", "o", "w", "n", " ", "a", "r", "t", "i", "s", "t">>

\* " — "
Dash == <<" ", EMDASH, " ">>

\* SingleSong::new
SingleSongNew(path, art, alb) ==
    LET fe == utils_cap_filename_ext(path)
        name == format_name(fe[1])
        render ==
            (IF art # None THEN format_name(art[1]) ELSE UnknownArtist)
            \o (IF alb # None
                THEN IF alb[1] # name THEN Dash \o format_name(alb[1]) ELSE <<>>
                ELSE <<>>)
            \o Dash \o name
    IN  [file_path |-> path, name |-> name, render |-> render, ext |-> fe[2],
         artist |-> art, album |-> alb]

----------------------------------------------------------------------------
(* Inputs *)

TEST_1 ==
    <<"h", "e", "l", "l", "o", " ", "s", "0", "1", " ", "e", "0", "2", " ",
      "h", "i", ".", "m", "p", "4">>
TEST_2 ==
    <<"x", "s", "0", "1", "e", "2", "0", ".", "e", "p", "c">>
TEST_3 ==
    <<"S", "E", "A", "S", "O", "N", "3", "E", "P", "I", "S", "O", "D", "E", "4">>
TEST_4 ==
    <<"E", "P", "I", "s", "o", "d", "e", "2", " ", "a", "n", "d", " ",
      "S", "E", "A", "S", "O", "n", " ", "0", "0", "0", "2", ".", "e", "x", "y">>
TEST_5 ==
    <<"h", "i", "S", "0", "1", "E", "0", "4", ".", "e", "x">>

TestNames == {TEST_1, TEST_2, TEST_3, TEST_4, TEST_5}

\* "plainname", "a.b.c", "a.s1e1.mp4"
PlainName == <<"p", "l", "a", "i", "n", "n", "a", "m", "e">>
ABC == <<"a", ".", "b", ".", "c">>
DottedName == <<"a", ".", "s", "1", "e", "1", ".", "m", "p", "4">>

\* "s01e02s3e4": two markers of each kind, with different numbers
TwoMarkers == <<"s", "0", "1", "e", "0", "2", "s", "3", "e", "4">>

SampleNames == {PlainName, ABC, DottedName, TwoMarkers}

\* The pieces file names are put together from.
TvTokens ==
    { <<"s">>, <<"S", "e", "A", "s", "o", "N">>,
      <<"e">>, <<"E", "p">>, <<"e", "P", "i", "s", "O", "d", "E">>,
      <<" ">>, <<".">>, <<"0">>, <<"1">>, <<"2">>, <<"x">> }

TvInputs ==
    {Concat(ts) : ts \in SeqsUpTo(TvTokens, MaxTokens)}
        \cup TestNames \cup SampleNames

\* The values an `episode` or `season` query argument takes.
Overrides == {None, Some(7)}

Contexts == {Context(e, s) : e \in Overrides, s \in Overrides}

\* "Track", "Track.mp3", "My Song.mp3", "My.Song", "My.Song-Title.mp3",
\* "The Band"
Track == <<"T", "r", "a", "c", "k">>
TrackMp3 == Track \o <<".", "m", "p", "3">>
MySongMp3 == <<"M", "y", " ", "S", "o", "n", "g", ".", "m", "p", "3">>
MyDotSong == <<"M", "y", ".", "S", "o", "n", "g">>
MySongTitleMp3 ==
    <<"M", "y", ".", "S", "o", "n", "g", "-", "T", "i", "t", "l", "e",
      ".", "m", "p", "3">>
TheBand == <<"T", "h", "e", " ", "B", "a", "n", "d">>

MusicChars == {"a", ".", "-", " "}

MusicPaths ==
    SeqsUpTo(MusicChars, MaxPathLen)
        \cup {Track, TrackMp3, MySongMp3, MySongTitleMp3}

Albums ==
    {None} \cup {Some(a) : a \in SeqsUpTo(MusicChars, MaxAlbumLen)}
           \cup {Some(Track), Some(MyDotSong)}

Artists == {None, Some(TheBand), Some(<<"a", ".", "-", "a", " ">>)}

\* The names a /tv/season body lists.
BatchNames ==
    { <<"s", "1", "e", "1">>, <<"e", "2">>, <<"s", "3">>, <<"x">> }

\* The arguments of the direct calls.
FnInputs ==
    TvInputs \cup SeqsUpTo(MusicChars \cup {TAB}, MaxNameLen)

\* Twenty nines, and usize::MAX + 1 = 18446744073709551616.
Nines == [i \in 1..20 |-> "9"]
UsizeMaxPlus1 == SubSeq(USIZE_MAX, 1, 19) \o <<"6">>

\* Names whose season or episode marker holds a number that no usize holds:
\* "s<n>e1", "s1e<n>", "Season 0<n>.e1" for each such n.
BigNames ==
    UNION { { <<"s">> \o n \o <<"e", "1">>,
              <<"s", "1", "e">> \o n,
              <<"S", "e", "a", "s", "o", "n", " ", "0">> \o n \o <<".", "e", "1">> }
            : n \in {Nines, UsizeMaxPlus1} }

----------------------------------------------------------------------------
(* POST /tv/episode *)

InitTv ==
    /\ pc = "request"
    /\ file_path \in TvInputs
    /\ context \in Contexts
    /\ artist = None
    /\ album = None
    /\ names = <<>>
    /\ caps = <<>>
    /\ processed = <<>>
    /\ response = NoResponse
    /\ arg = <<>>
    /\ out = NoCall
    /\ calls = 0

\* The `episode` handler.
episode ==
    /\ pc = "request"
    /\ LET r == CaptureNew(file_path, context)
       IN  response' =
               IF r.kind = "Ok" THEN ResponseNew(200, "Success", r.val)
               ELSE IF r.kind = "Err" THEN ResponseBasic(400, Display(r.val))
               ELSE Aborted
    /\ pc' = "done"
    /\ UNCHANGED <<file_path, context, artist, album, names, caps, processed,
                   arg, out, calls>>

NextTv == episode

SpecTv == InitTv /\ [][NextTv]_vars

\* POST /tv/episode, also with names that hold numbers beyond usize::MAX.
InitTvBig ==
    /\ pc = "request"
    /\ file_path \in TvInputs \cup BigNames
    /\ context \in Contexts
    /\ artist = None
    /\ album = None
    /\ names = <<>>
    /\ caps = <<>>
    /\ processed = <<>>
    /\ response = NoResponse
    /\ arg = <<>>
    /\ out = NoCall
    /\ calls = 0

SpecTvBig == InitTvBig /\ [][NextTv]_vars

----------------------------------------------------------------------------
(* POST /tv/season *)

InitBatch ==
    /\ pc = "request"
    /\ file_path = <<>>
    /\ context \in {Context(None, n) : n \in Overrides}
    /\ artist = None
    /\ album = None
    /\ names \in SeqsUpTo(BatchNames, MaxNames)
    /\ caps = <<>>
    /\ processed = <<>>
    /\ response = NoResponse
    /\ arg = <<>>
    /\ out = NoCall
    /\ calls = 0

\* One turn of the loop of `season` that goes on to the next name after a
\* name has failed.
season_next_skip ==
    /\ pc = "request"
    /\ Len(processed) < Len(names)
    /\ LET i == Len(processed) + 1
           r == CaptureNew(names[i], context)
       IN  /\ processed' = Append(processed, i)
           /\ caps' = IF r.kind = "Ok" THEN Append(caps, r.val) ELSE caps
           /\ response' =
                  IF r.kind = "Ok" THEN response
                  ELSE IF r.kind = "Err" THEN ResponseBasic(400, Display(r.val))
                  ELSE Aborted
           /\ pc' = IF r.kind = "Panic" THEN "done" ELSE pc
    /\ UNCHANGED <<file_path, context, artist, album, names, arg, out, calls>>

\* One turn of the loop of `season`: Capture::new on the next name, pushed
\* onto caps, or the handler returns the error.
season_next ==
    /\ pc = "request"
    /\ Len(processed) < Len(names)
    /\ LET i == Len(processed) + 1
           r == CaptureNew(names[i], context)
       IN  /\ processed' = Append(processed, i)
           /\ caps' = IF r.kind = "Ok" THEN Append(caps, r.val) ELSE caps
           /\ response' =
                  IF r.kind = "Ok" THEN response
                  ELSE IF r.kind = "Err" THEN ResponseBasic(400, Display(r.val))
                  ELSE Aborted
           /\ pc' = IF r.kind = "Ok" THEN pc ELSE "done"
    /\ UNCHANGED <<file_path, context, artist, album, names, arg, out, calls>>

\* The end of `season`, after the loop.
season_return ==
    /\ pc = "request"
    /\ Len(processed) = Len(names)
    /\ response' = ResponseNew(200, "Success", caps)
    /\ pc' = "done"
    /\ UNCHANGED <<file_path, context, artist, album, names, caps, processed,
                   arg, out, calls>>

NextBatch == season_next \/ season_return

SpecBatch == InitBatch /\ [][NextBatch]_vars

----------------------------------------------------------------------------
(* POST /music/song *)

InitMusic ==
    /\ pc = "request"
    /\ file_path \in MusicPaths
    /\ context = NoOverride
    /\ artist \in Artists
    /\ album \in Albums
    /\ names = <<>>
    /\ caps = <<>>
    /\ processed = <<>>
    /\ response = NoResponse
    /\ arg = <<>>
    /\ out = NoCall
    /\ calls = 0

\* The `song` handler.
song ==
    /\ pc = "request"
    /\ response' = ResponseNew(200, "Success",
                               SingleSongNew(file_path, artist, album))
    /\ pc' = "done"
    /\ UNCHANGED <<file_path, context, artist, album, names, caps, processed,
                   arg, out, calls>>

NextMusic == song

SpecMusic == InitMusic /\ [][NextMusic]_vars

----------------------------------------------------------------------------
(* Direct calls of the helper functions, as the unit tests of tv.rs make *)

InitFn ==
    /\ pc = "call"
    /\ file_path = <<>>
    /\ context = NoOverride
    /\ artist = None
    /\ album = None
    /\ names = <<>>
    /\ caps = <<>>
    /\ processed = <<>>
    /\ response = NoResponse
    /\ arg \in FnInputs
    /\ out = NoCall
    /\ calls = 0

Returned(fn, x, v) ==
    /\ out' = [fn |-> fn, in |-> x, val |-> v]
    /\ calls' = calls + 1
    /\ UNCHANGED <<pc, file_path, context, artist, album, names, caps,
                   processed, response, arg>>

call_cap_season ==
    pc = "call" /\ calls = 0 /\ Returned("cap_season", arg, cap_season(arg))

call_cap_episode ==
    pc = "call" /\ calls = 0 /\ Returned("cap_episode", arg, cap_episode(arg))

call_tv_cap_filename_ext ==
    /\ pc = "call"
    /\ calls = 0
    /\ Returned("tv_cap_filename_ext", arg, tv_cap_filename_ext(arg))

call_utils_cap_filename_ext ==
    /\ pc = "call"
    /\ calls = 0
    /\ Returned("utils_cap_filename_ext", arg, utils_cap_filename_ext(arg))

\* format_name, on the argument and then on what it returned itself.
call_format_name ==
    /\ pc = "call"
    /\ calls < MaxCalls
    /\ calls = 0 \/ out.fn = "format_name"
    /\ LET x == IF calls = 0 THEN arg ELSE out.val
       IN  Returned("format_name", x, format_name(x))

NextFn ==
    \/ call_cap_season
    \/ call_cap_episode
    \/ call_tv_cap_filename_ext
    \/ call_utils_cap_filename_ext
    \/ call_format_name

SpecFn == InitFn /\ [][NextFn]_vars

----------------------------------------------------------------------------
(* What the claims speak of, stated apart from the code's own helpers *)

\* c is the letter l in either case.
SameLetter(c, l) ==
    \/ c = l
    \/ <<c, l>> \in {<<"S", "s">>, <<"E", "e">>, <<"A", "a">>, <<"O", "o">>,
                     <<"N", "n">>, <<"P", "p">>, <<"I", "i">>, <<"D", "d">>}

SeasonWords == {<<"s">>, <<"s", "e", "a", "s", "o", "n">>}
EpisodeWords ==
    {<<"e">>, <<"e", "p">>, <<"e", "p", "i", "s", "o", "d", "e">>}

\* A marker starts at i and its digits start at d: a word in either case,
\* spaces, a digit.
MarkerFromTo(s, i, d, words) ==
    \E w \in words :
        /\ i + Len(w) <= d
        /\ d <= Len(s)
        /\ \A k \in 1..Len(w) : SameLetter(s[i + k - 1], w[k])
        /\ \A k \in (i + Len(w))..(d - 1) : s[k] = " "
        /\ s[d] \in Digits

MarkerStarts(s, words) ==
    {i \in 1..Len(s) : \E d \in i..Len(s) : MarkerFromTo(s, i, d, words)}

HasMarker(s, words) == MarkerStarts(s, words) # {}

RECURSIVE Pow10(_)
Pow10(n) == IF n = 0 THEN 1 ELSE 10 * Pow10(n - 1)

RECURSIVE NumberAt(_, _, _)
NumberAt(s, d, e) ==
    IF d > e THEN 0
    ELSE DigitVal[s[d]] * Pow10(e - d) + NumberAt(s, d + 1, e)

\* The integer written in the leftmost marker of s: all the digits that
\* follow one another from the marker's first digit.
LeftmostMarkerValue(s, words) ==
    LET i == Min(MarkerStarts(s, words))
        d == CHOOSE x \in i..Len(s) : MarkerFromTo(s, i, x, words)
        e == Max({y \in d..Len(s) : \A k \in d..y : s[k] \in Digits})
    IN  NumberAt(s, d, e)

Dots(s) == {i \in 1..Len(s) : s[i] = "."}

\* The stem and the extension as the Filename Splitter is specified: the
\* name is cut at its last dot.
SpecStem(s) == IF Dots(s) = {} THEN s ELSE SubSeq(s, 1, Max(Dots(s)) - 1)
SpecExt(s) ==
    IF Dots(s) = {} THEN None ELSE Some(SubSeq(s, Max(Dots(s)), Len(s)))

Unresolvable(path) ==
    /\ ~HasMarker(SpecStem(path), SeasonWords)
    /\ ~HasMarker(SpecStem(path), EpisodeWords)

----------------------------------------------------------------------------
(* Claims about POST /tv/episode, checked under SpecTv *)

\* C1 as stated: when neither the season nor the episode can be resolved (no
\* override, no marker in the stem), Capture::new fails with NoSeasonRegex.
C1_SeasonErrorFirst ==
    (pc = "done" /\ context = NoOverride /\ Unresolvable(file_path))
        => response = ResponseBasic(400, Display(NoSeasonRegex))

\* C1 amended: when neither the season nor the episode can be resolved (no
\* override, no marker in the stem), Capture::new fails with NoEpisodeRegex,
\* never with NoSeasonRegex: the episode is resolved before the season.
C1_EpisodeErrorFirst ==
    (pc = "done" /\ context = NoOverride /\ Unresolvable(file_path))
        => response = ResponseBasic(400, Display(NoEpisodeRegex))

C1_Witness ==
    /\ pc = "done"
    /\ file_path = PlainName
    /\ context = NoOverride
    /\ response.status = 400

\* C2: a Capture that Capture::new returns carries the season of the Context
\* when the Context has one, and the episode of the Context when it has one,
\* whatever markers the file name holds.
C2_OverrideWins ==
    (pc = "done" /\ response.status = 200) =>
        /\ context.season # None => response.body[1].season = context.season[1]
        /\ context.episode # None => response.body[1].episode = context.episode[1]

\* An override was supplied for a name whose markers say something else.
C2_Witness ==
    /\ pc = "done"
    /\ response.status = 200
    /\ context.season # None
    /\ context.episode # None
    /\ HasMarker(response.body[1].filename, SeasonWords)
    /\ HasMarker(response.body[1].filename, EpisodeWords)
    /\ LeftmostMarkerValue(response.body[1].filename, SeasonWords)
           # context.season[1]
    /\ LeftmostMarkerValue(response.body[1].filename, EpisodeWords)
           # context.episode[1]

\* C3: without a season override, a season marker in the name (here: in its
\* stem, whatever dots come before it) is recovered: Capture::new does not
\* fail with NoSeasonRegex, and the Capture's season is the marker's integer.
C3_SeasonRecovered ==
    (/\ pc = "done"
     /\ context.season = None
     /\ HasMarker(SpecStem(file_path), SeasonWords))
        => /\ response # ResponseBasic(400, Display(NoSeasonRegex))
           /\ response.status = 200 =>
                response.body[1].season =
                    LeftmostMarkerValue(SpecStem(file_path), SeasonWords)

\* C5: for a name with more than one dot-separated segment, the Capture's
\* filename is all segments but the last joined by '.', and its ext is '.'
\* followed by the last segment.
C5_SplitOnLastDot ==
    (pc = "done" /\ response.status = 200 /\ Dots(file_path) # {}) =>
        /\ response.body[1].filename = SpecStem(file_path)
        /\ response.body[1].ext = SpecExt(file_path)

----------------------------------------------------------------------------
(* Claims about POST /tv/episode, checked under SpecTvBig *)

\* C12: Capture::new is total: for every file name and Context it returns a
\* Capture or one of the two CaptureErrors and never aborts, however large
\* the number in a matched marker is.
C12_Total ==
    pc = "done" =>
        /\ response # Aborted
        /\ \/ response.status = 200 /\ response.body # None
           \/ response = ResponseBasic(400, Display(NoSeasonRegex))
           \/ response = ResponseBasic(400, Display(NoEpisodeRegex))

----------------------------------------------------------------------------
(* Claims about the helper functions, checked under SpecFn *)

MarkerResult(s, words, err) ==
    IF HasMarker(s, words) THEN Ok(LeftmostMarkerValue(s, words)) ELSE Err(err)

\* C4: cap_season and cap_episode return the number written in the leftmost
\* marker of the searched string, leading zeros ignored, and NoSeasonRegex /
\* NoEpisodeRegex exactly when the string holds no marker; the five test
\* names give (episode, season) = (2,1), (20,1), (4,3), (2,2), (4,1).
C4_LeftmostMarker ==
    /\ out.fn = "cap_season" =>
          /\ out.val = MarkerResult(out.in, SeasonWords, NoSeasonRegex)
          /\ out.in \in {TEST_1, TEST_2, TEST_5} => out.val = Ok(1)
          /\ out.in = TEST_3 => out.val = Ok(3)
          /\ out.in = TEST_4 => out.val = Ok(2)
    /\ out.fn = "cap_episode" =>
          /\ out.val = MarkerResult(out.in, EpisodeWords, NoEpisodeRegex)
          /\ out.in \in {TEST_1, TEST_4} => out.val = Ok(2)
          /\ out.in = TEST_2 => out.val = Ok(20)
          /\ out.in \in {TEST_3, TEST_5} => out.val = Ok(4)

\* cap_season has answered for a name with two season markers that differ.
C4_Witness ==
    /\ out.fn = "cap_season"
    /\ out.in = TwoMarkers
    /\ Cardinality(MarkerStarts(out.in, SeasonWords)) = 2
    /\ out.val = Ok(1)

\* C7: for a string with at least one '.', the stem followed by the extension
\* that cap_filename_ext returns (the one of utils.rs and the one of tv.rs)
\* is the string itself.
C7_RoundTrip ==
    (/\ out.fn \in {"tv_cap_filename_ext", "utils_cap_filename_ext"}
     /\ Dots(out.in) # {})
        => /\ out.val[2] # None
           /\ out.val[1] \o out.val[2][1] = out.in

C7_Witness ==
    /\ out.fn = "tv_cap_filename_ext"
    /\ Cardinality(Dots(out.in)) >= 2
    /\ out.val[1] # <<>>

\* C9: format_name applied to what format_name returned gives it back
\* unchanged.
C9_Idempotent ==
    (out.fn = "format_name" /\ calls >= 2) => out.val = out.in

\* The second call was made on a result that the first call had changed.
C9_Witness ==
    /\ out.fn = "format_name"
    /\ calls = 2
    /\ out.in # arg
    /\ out.in # <<>>

----------------------------------------------------------------------------
(* Claims about POST /music/song, checked under SpecMusic *)

\* C6: for a file path without '.', the SingleSong has no extension and its
\* name is the normalized form of the whole path.
C6_NoDotWholeName ==
    (pc = "done" /\ Dots(file_path) = {}) =>
        /\ response.body[1].ext = None
        /\ response.body[1].name = format_name(file_path)

\* C8: render is the normalized artist (or "Unknown artist"), then
\* " -- <normalized album>" exactly when the album is present and its
\* normalized form differs from the title, then " -- <title>".
C8_Render ==
    pc = "done" =>
        LET song_ == response.body[1]
            title == song_.name
        IN  song_.render =
                (IF artist = None THEN UnknownArtist ELSE format_name(artist[1]))
                \o (IF album # None /\ format_name(album[1]) # title
                    THEN Dash \o format_name(album[1])
                    ELSE <<>>)
                \o Dash \o title

\* C11: the SingleSong's artist and album are the normalized forms of the
\* artist and the album supplied, and absent when none was supplied: an absent
\* artist is not stored as "Unknown artist", and an album is stored also when
\* render leaves it out.
C11_StoredNormalized ==
    pc = "done" =>
        /\ response.body[1].artist =
               IF artist = None THEN None ELSE Some(format_name(artist[1]))
        /\ response.body[1].album =
               IF album = None THEN None ELSE Some(format_name(album[1]))

----------------------------------------------------------------------------
(* Claims about POST /tv/season, checked under SpecBatch *)

Failing == {i \in 1..Len(names) : CaptureNew(names[i], context).kind = "Err"}

\* C10: the names are processed in list order; when a name fails the response
\* is the error of the first failing name, without captures, and no later
\* name has been processed; when none fails the response holds one Capture
\* per name, in the order of the list.
C10_FailFast ==
    /\ processed = [i \in 1..Len(processed) |-> i]
    /\ pc = "done" =>
          IF Failing # {}
          THEN /\ response =
                     ResponseBasic(400,
                         Display(CaptureNew(names[Min(Failing)], context).val))
               /\ response.body = None
               /\ Len(processed) = Min(Failing)
          ELSE /\ response.status = 200
               /\ Len(response.body[1]) = Len(names)
               /\ \A i \in 1..Len(names) :
                     /\ response.body[1][i].file_path = names[i]
                     /\ response.body[1][i] = CaptureNew(names[i], context).val

\* A batch failed on a name that is neither its first nor its last.
C10_Witness ==
    /\ pc = "done"
    /\ Failing # {}
    /\ Min(Failing) > 1
    /\ Min(Failing) < Len(names)
    /\ response.status = 400

====
